---- MODULE Spec2Model ----
(***************************************************************************)
(* Model of the task store of sk-tasks: the Tasks screen (TasksScreen),    *)
(* the Home screen (HomeScreen) and the creation form (AddTaskModal), all  *)
(* reading and rewriting the one AsyncStorage key '@sk_tasks'.             *)
(*                                                                         *)
(* A React handler reads the state of the render it was created in; the    *)
(* state set by an earlier handler is rendered before the next user event, *)
(* so a handler fired by the user reads the current state.  The closure    *)
(* handed to Alert.alert is the exception: it keeps the state of the       *)
(* render in which deleteTask was called.  An AsyncStorage call is a       *)
(* request that resolves later; requests resolve in the order they were    *)
(* issued (the native module serves them from one serial queue).           *)
(***************************************************************************)
EXTENDS Integers, Sequences, FiniteSets

VARIABLES
  platform,    \* Platform.OS
  now,         \* the latest reading Date.now() gave
  storage,     \* the value under the key '@sk_tasks'
  pending,     \* AsyncStorage requests issued and not yet resolved, oldest first
  tasksT,      \* TasksScreen: tasks
  tasksH,      \* HomeScreen: tasks
  categories,  \* HomeScreen: categories
  focus,       \* the tab in focus
  modal,       \* per screen: isModalVisible, and its AddTaskModal's newTaskTitle
  prompt,      \* the delete confirmation Alert.alert shows on a native platform
  fails,       \* storage calls that have thrown so far
  events,      \* adds, toggles, confirmed deletes, changes of tab, of chip and of query so far
  selectedCategory,  \* TasksScreen: selectedCategory
  searchQuery, \* HomeScreen: searchQuery
  twice,       \* the two latest toggles, when they are of one id with no mutation between
  deleted,     \* ids whose confirmed delete has been written
  last         \* the step taken last: which handler, how it ended, what it showed and logged

\* the state of the two derived views
view == <<selectedCategory, searchQuery>>

vars == <<platform, now, storage, pending, tasksT, tasksH, categories, focus,
          modal, prompt, fails, events, selectedCategory, searchQuery, twice,
          deleted, last>>

----------------------------------------------------------------------------
(* Bounds of the model *)

ClockStart == 9
MaxTicks == 1
MaxPending == 2
MaxEvents == 3

----------------------------------------------------------------------------
(* Values *)

Screens == {"Tasks", "Home"}

Platforms == {"web", "native"}

CATEGORY_NAMES == <<"Work", "Personal", "Shopping", "Health">>

CATEGORIES == <<"Work", "Personal", "Shopping", "Health">>

\* newTaskCategory when Create Task is pressed: the chip the user picked
\* last, or the initial one
CategoryInputs == {"Work", "Shopping"}

\* the texts the user types in the form, as sequences of characters
TitleInputs == { <<" ">>, <<" ", "a">> }

\* the chips of the Tasks screen
TasksScreenCATEGORIES == <<"All", "Work", "Personal", "Shopping", "Health">>

\* the texts the user types in the search field of the Home screen
QueryInputs == { <<>>, <<"A">>, <<"a", "C">>, <<"b">> }

Range(s) == { s[i] : i \in DOMAIN s }

\* String.prototype.toLowerCase, on the letters of the model
LowerChar(c) == CASE c = "A" -> "a" [] c = "B" -> "b" [] c = "C" -> "c" [] OTHER -> c

ToLowerCase(s) == [i \in DOMAIN s |-> LowerChar(s[i])]

\* String.prototype.includes
Includes(s, q) ==
  \E k \in 0 .. (Len(s) - Len(q)) : SubSeq(s, k + 1, k + Len(q)) = q

\* Array.prototype.slice(0, end)
Slice(ts, end) == SubSeq(ts, 1, IF Len(ts) < end THEN Len(ts) ELSE end)

Digit(d) == <<"0", "1", "2", "3", "4", "5", "6", "7", "8", "9">>[d + 1]

RECURSIVE ToString(_)
ToString(n) == IF n < 10 THEN <<Digit(n)>>
               ELSE ToString(n \div 10) \o <<Digit(n % 10)>>

\* the day of a clock reading; a day lasts ten clock steps here
LocaleDateString(t) == <<"d">> \o ToString(t \div 10)

IsSpace(c) == c = " "

RECURSIVE TrimStart(_)
TrimStart(s) == IF s # <<>> /\ IsSpace(Head(s)) THEN TrimStart(Tail(s)) ELSE s

RECURSIVE TrimEnd(_)
TrimEnd(s) == IF s # <<>> /\ IsSpace(s[Len(s)])
              THEN TrimEnd(SubSeq(s, 1, Len(s) - 1)) ELSE s

Trim(s) == TrimEnd(TrimStart(s))

----------------------------------------------------------------------------
(* The storage key *)

Absent == [tag |-> "null", value |-> <<>>]

Corrupt == [tag |-> "corrupt", value |-> <<>>]

Stringify(ts) == [tag |-> "json", value |-> ts]

\* JSON.parse throws on this text
ParseThrows(blob) == blob.tag = "corrupt"

Parse(blob) == blob.value

\* a string is truthy unless it is null (or empty, which is never stored)
Truthy(blob) == blob.tag # "null"

----------------------------------------------------------------------------
(* The collection operations the handlers apply *)

NewTask(t, title, category) ==
  [id |-> ToString(t), title |-> Trim(title), completed |-> FALSE,
   category |-> category, date |-> LocaleDateString(t)]

\* handleAddTask putting the new task behind the others
PrependBehind(task, ts) == ts \o <<task>>

Prepend(task, ts) == <<task>> \o ts

\* toggleTask without its test of the id
ToggleCompletedAll(ts, id) ==
  [i \in DOMAIN ts |-> [ts[i] EXCEPT !.completed = ~ts[i].completed]]

ToggleCompleted(ts, id) ==
  [i \in DOMAIN ts |->
     IF ts[i].id = id THEN [ts[i] EXCEPT !.completed = ~ts[i].completed]
     ELSE ts[i]]

\* deleteTask with its test of the id inverted
FilterOutInverted(ts, id) == SelectSeq(ts, LAMBDA r : r.id = id)

RECURSIVE FilterOut(_, _)
FilterOut(ts, id) ==
  IF ts = <<>> THEN <<>>
  ELSE IF Head(ts).id # id THEN <<Head(ts)>> \o FilterOut(Tail(ts), id)
       ELSE FilterOut(Tail(ts), id)

RECURSIVE CountActive(_, _)
CountActive(ts, name) ==
  IF ts = <<>> THEN 0
  ELSE (IF Head(ts).category = name /\ ~Head(ts).completed THEN 1 ELSE 0)
       + CountActive(Tail(ts), name)

CategoryCounts(ts) ==
  [i \in DOMAIN CATEGORY_NAMES |->
     [id |-> ToString(i - 1), name |-> CATEGORY_NAMES[i],
      count |-> CountActive(ts, CATEGORY_NAMES[i])]]

BumpCategory(cats, category) ==
  [i \in DOMAIN cats |->
     IF cats[i].name = category THEN [cats[i] EXCEPT !.count = cats[i].count + 1]
     ELSE cats[i]]

----------------------------------------------------------------------------
(* The derived views *)

\* filteredTasks without its test of "All"
FilteredTasksNoAll(ts, selected) ==
  SelectSeq(ts, LAMBDA task : task.category = selected)

\* TasksScreen: filteredTasks
FilteredTasks(ts, selected) ==
  IF selected = "All" THEN ts
  ELSE SelectSeq(ts, LAMBDA task : task.category = selected)

\* displayedTasks with the five-record cap on the search results too
DisplayedTasksCapped(ts, query) ==
  Slice(IF Len(query) > 0
        THEN SelectSeq(ts, LAMBDA t :
               Includes(ToLowerCase(t.title), ToLowerCase(query)))
        ELSE ts, 5)

\* HomeScreen: displayedTasks
DisplayedTasks(ts, query) ==
  IF Len(query) > 0
  THEN SelectSeq(ts, LAMBDA t :
         Includes(ToLowerCase(t.title), ToLowerCase(query)))
  ELSE Slice(ts, 5)

----------------------------------------------------------------------------
(* What a load leaves in the screen's collection *)

\* loadTasks with a catch that clears the collection
LoadTasksResultClears(blob, rejected, cur) ==
  IF rejected THEN <<>>
  ELSE IF Truthy(blob)
       THEN (IF ParseThrows(blob) THEN <<>> ELSE Parse(blob))
       ELSE cur

\* loadTasks: rejected is getItem throwing; cur is the collection before
LoadTasksResult(blob, rejected, cur) ==
  IF rejected THEN cur
  ELSE IF Truthy(blob)
       THEN (IF ParseThrows(blob) THEN cur ELSE Parse(blob))
       ELSE cur

\* loadData with a catch that sets the empty collection
LoadDataResultClears(blob, rejected, cur) ==
  IF rejected THEN <<>>
  ELSE IF Truthy(blob)
       THEN (IF ParseThrows(blob) THEN <<>> ELSE Parse(blob))
       ELSE <<>>

\* loadData: the collection it sets
LoadDataResult(blob, rejected, cur) ==
  IF rejected THEN cur
  ELSE IF Truthy(blob)
       THEN (IF ParseThrows(blob) THEN cur ELSE Parse(blob))
       ELSE <<>>

LoadOutcome(blob, rejected) ==
  IF rejected THEN "rejected"
  ELSE IF ~Truthy(blob) THEN "absent"
  ELSE IF ParseThrows(blob) THEN "corrupt"
  ELSE "ok"

\* loadData: the counts it sets
LoadDataCategories(blob, rejected, cur) ==
  IF rejected \/ (Truthy(blob) /\ ParseThrows(blob)) THEN cur
  ELSE CategoryCounts(IF Truthy(blob) THEN Parse(blob) ELSE <<>>)

\* the form's test without the trim
IsBlankUntrimmed(title) == Len(title) = 0

\* the form's test of its title
IsBlank(title) == Len(Trim(title)) = 0

----------------------------------------------------------------------------
(* Requests and the record of the last step *)

GetItem(s) == [kind |-> "get", screen |-> s, value |-> <<>>, origin |-> "load", id |-> <<>>]

SetItem(s, ts, origin, id) ==
  [kind |-> "set", screen |-> s, value |-> ts, origin |-> origin, id |-> id]

NoPair == [stage |-> 0, screen |-> "Home", id |-> <<>>, orig |-> <<>>]

NoPrompt == [open |-> FALSE, id |-> <<>>, tasks |-> <<>>]

Closed == [visible |-> FALSE, newTaskTitle |-> <<>>]

\* op: the step; screen, origin, id: the handler and its argument; outcome:
\* how a storage call ended; alert, logged: what was shown and what was logged
Step(op, s, origin, id, outcome, alert, logged) ==
  [op |-> op, screen |-> s, origin |-> origin, id |-> id, outcome |-> outcome,
   alert |-> alert, logged |-> logged]

\* a step of no handler of the collection
Other == Step("other", "Home", "none", <<>>, "none", "none", "none")

TasksOf(s) == IF s = "Tasks" THEN tasksT ELSE tasksH

Ids(ts) == { ts[i].id : i \in DOMAIN ts }

NoDialog == (\A s \in Screens : ~modal[s].visible) /\ ~prompt.open

CanIssue == Len(pending) < MaxPending

\* the session is MaxEvents long: mutations, changes of tab and failing
\* storage calls; no dialog is opened once it is over
Budget == events + fails < MaxEvents

----------------------------------------------------------------------------
(* Initial state: both screens as useState leaves them, the first screen   *)
(* in focus with its load issued, the key as the device holds it: never    *)
(* written, unreadable, or written by a previous session.                  *)

\* a task a previous session of the program created and stored
StoredTask ==
  [id |-> ToString(ClockStart - 1), title |-> <<"a">>, completed |-> FALSE,
   category |-> "Work", date |-> LocaleDateString(ClockStart - 1)]

Init ==
  /\ platform \in Platforms
  /\ now = ClockStart
  /\ storage \in {Absent, Corrupt, Stringify(<<StoredTask>>)}
  /\ focus \in Screens
  /\ pending = <<GetItem(focus)>>
  /\ tasksT = <<>>
  /\ tasksH = <<>>
  /\ categories = <<>>
  /\ modal = [s \in Screens |-> Closed]
  /\ prompt = NoPrompt
  /\ fails = 0
  /\ events = 0
  /\ selectedCategory = "All"
  /\ searchQuery = <<>>
  /\ twice = NoPair
  /\ deleted = {}
  /\ last = Other

----------------------------------------------------------------------------
(* useFocusEffect: a screen coming into focus issues its load *)

Focus(s) ==
  /\ focus # s
  /\ NoDialog
  /\ CanIssue
  /\ Budget
  /\ events' = events + 1
  /\ focus' = s
  /\ pending' = Append(pending, GetItem(s))
  /\ last' = Other
  /\ UNCHANGED <<view, platform, now, storage, tasksT, tasksH, categories, modal,
                 prompt, fails, twice, deleted>>

LoadLogged(blob, rejected) ==
  IF rejected \/ (Truthy(blob) /\ ParseThrows(blob))
  THEN "Failed to load tasks" ELSE "none"

\* TasksScreen.loadTasks, from the point where getItem resolves or throws
LoadTasksDone(rejected) ==
  /\ pending # <<>>
  /\ Head(pending).kind = "get"
  /\ Head(pending).screen = "Tasks"
  /\ rejected => Budget
  /\ pending' = Tail(pending)
  /\ tasksT' = LoadTasksResult(storage, rejected, tasksT)
  /\ fails' = IF rejected THEN fails + 1 ELSE fails
  /\ twice' = NoPair
  /\ last' = Step("loaded", "Tasks", "load", <<>>,
                  LoadOutcome(storage, rejected), "none",
                  LoadLogged(storage, rejected))
  /\ UNCHANGED <<view, platform, now, storage, tasksH, categories, focus, modal,
                 prompt, events, deleted>>

\* HomeScreen.loadData, from the point where getItem resolves or throws
LoadDataDone(rejected) ==
  /\ pending # <<>>
  /\ Head(pending).kind = "get"
  /\ Head(pending).screen = "Home"
  /\ rejected => Budget
  /\ pending' = Tail(pending)
  /\ tasksH' = LoadDataResult(storage, rejected, tasksH)
  /\ categories' = LoadDataCategories(storage, rejected, categories)
  /\ fails' = IF rejected THEN fails + 1 ELSE fails
  /\ twice' = NoPair
  /\ last' = Step("loaded", "Home", "load", <<>>,
                  LoadOutcome(storage, rejected), "none",
                  LoadLogged(storage, rejected))
  /\ UNCHANGED <<view, platform, now, storage, tasksT, focus, modal, prompt, events, deleted>>

----------------------------------------------------------------------------
(* Writes *)

\* TasksScreen.saveTasks, from the point where setItem resolves or throws
SaveTasksDone(rejected) ==
  /\ pending # <<>>
  /\ Head(pending).kind = "set"
  /\ Head(pending).screen = "Tasks"
  /\ rejected => Budget
  /\ pending' = Tail(pending)
  /\ storage' = IF rejected THEN storage ELSE Stringify(Head(pending).value)
  /\ tasksT' = IF rejected THEN tasksT ELSE Head(pending).value
  /\ fails' = IF rejected THEN fails + 1 ELSE fails
  /\ twice' = IF rejected THEN NoPair ELSE twice
  /\ deleted' = IF ~rejected /\ Head(pending).origin = "delete"
                THEN deleted \cup {Head(pending).id} ELSE deleted
  /\ last' = Step("saved", "Tasks", Head(pending).origin, Head(pending).id,
                  IF rejected THEN "rejected" ELSE "ok", "none",
                  IF rejected THEN "Failed to save tasks" ELSE "none")
  /\ UNCHANGED <<view, platform, now, tasksH, categories, focus, modal, prompt, events>>

\* HomeScreen.handleAddTask and toggleTask, from the point where their
\* setItem resolves or throws
SetItemDone(rejected) ==
  /\ pending # <<>>
  /\ Head(pending).kind = "set"
  /\ Head(pending).screen = "Home"
  /\ rejected => Budget
  /\ pending' = Tail(pending)
  /\ storage' = IF rejected THEN storage ELSE Stringify(Head(pending).value)
  /\ fails' = IF rejected THEN fails + 1 ELSE fails
  /\ twice' = IF rejected THEN NoPair ELSE twice
  /\ last' = Step("saved", "Home", Head(pending).origin, Head(pending).id,
                  IF rejected THEN "rejected" ELSE "ok", "none",
                  IF rejected THEN "Failed to save task" ELSE "none")
  /\ UNCHANGED <<view, platform, now, tasksT, tasksH, categories, focus, modal,
                 prompt, events, deleted>>

----------------------------------------------------------------------------
(* The creation form *)

\* the add button of a screen: setIsModalVisible(true)
OpenModal(s) ==
  /\ focus = s
  /\ NoDialog
  /\ Budget
  /\ modal' = [modal EXCEPT ![s].visible = TRUE]
  /\ last' = Other
  /\ UNCHANGED <<view, platform, now, storage, pending, tasksT, tasksH, categories,
                 focus, prompt, fails, events, twice, deleted>>

SetNewTaskTitle(s, text) ==
  /\ modal[s].visible
  /\ modal[s].newTaskTitle # text
  /\ modal' = [modal EXCEPT ![s].newTaskTitle = text]
  /\ last' = Other
  /\ UNCHANGED <<view, platform, now, storage, pending, tasksT, tasksH, categories,
                 focus, prompt, fails, events, twice, deleted>>

\* AddTaskModal.handleClose
HandleClose(s) ==
  /\ modal[s].visible
  /\ modal' = [modal EXCEPT ![s].visible = FALSE, ![s].newTaskTitle = <<>>]
  /\ last' = Other
  /\ UNCHANGED <<view, platform, now, storage, pending, tasksT, tasksH, categories,
                 focus, prompt, fails, events, twice, deleted>>

\* TasksScreen.handleAddTask: the collection is set when the write resolves
TasksHandleAddTask(t, title, category) ==
  /\ pending' = Append(pending,
                  SetItem("Tasks", Prepend(NewTask(t, title, category), tasksT),
                          "add", NewTask(t, title, category).id))
  /\ UNCHANGED <<tasksT, tasksH, categories>>

\* HomeScreen.handleAddTask, up to its await
HomeHandleAddTask(t, title, category) ==
  /\ tasksH' = Prepend(NewTask(t, title, category), tasksH)
  /\ categories' = BumpCategory(categories, category)
  /\ pending' = Append(pending,
                  SetItem("Home", Prepend(NewTask(t, title, category), tasksH),
                          "add", NewTask(t, title, category).id))
  /\ UNCHANGED tasksT

\* AddTaskModal.handleAddTask: the Create Task button.  t is what Date.now()
\* reads if the title passes: the clock never runs backwards, and may not
\* have advanced since it was last read
ModalHandleAddTask(s, newTaskCategory, t) ==
  /\ modal[s].visible
  /\ IF IsBlank(modal[s].newTaskTitle)
     THEN /\ t = now
          /\ newTaskCategory = "Work"
          /\ last' = Step("submit", s, "none", <<>>, "none",
                          "Please enter a task title", "none")
          /\ UNCHANGED <<now, pending, tasksT, tasksH, categories, modal, events,
                         twice, deleted>>
     ELSE /\ CanIssue
          /\ Budget
          /\ events' = events + 1
          /\ now' = t
          /\ IF s = "Tasks"
             THEN TasksHandleAddTask(t, modal[s].newTaskTitle, newTaskCategory)
             ELSE HomeHandleAddTask(t, modal[s].newTaskTitle, newTaskCategory)
          /\ modal' = [modal EXCEPT ![s].visible = FALSE, ![s].newTaskTitle = <<>>]
          /\ twice' = NoPair
          /\ deleted' = deleted \ {ToString(t)}
          /\ last' = Step("submit", s, "add", ToString(t), "none", "none",
                          "none")
  /\ UNCHANGED <<view, platform, storage, focus, prompt, fails>>

----------------------------------------------------------------------------
(* Toggle *)

NextPair(s, id) ==
  IF twice.stage = 1 /\ twice.screen = s /\ twice.id = id
  THEN [twice EXCEPT !.stage = 2]
  ELSE [stage |-> 1, screen |-> s, id |-> id, orig |-> TasksOf(s)]

\* TasksScreen.toggleTask
TasksToggleTask(id) ==
  /\ focus = "Tasks"
  /\ NoDialog
  /\ CanIssue
  /\ Budget
  /\ events' = events + 1
  /\ id \in Ids(tasksT)
  /\ pending' = Append(pending,
                  SetItem("Tasks", ToggleCompleted(tasksT, id), "toggle", id))
  /\ twice' = NextPair("Tasks", id)
  /\ last' = Step("toggle", "Tasks", "toggle", id, "none", "none", "none")
  /\ UNCHANGED <<view, platform, now, storage, tasksT, tasksH, categories, focus,
                 modal, prompt, fails, deleted>>

\* HomeScreen.toggleTask, up to its await
HomeToggleTask(id) ==
  /\ focus = "Home"
  /\ NoDialog
  /\ CanIssue
  /\ Budget
  /\ events' = events + 1
  /\ id \in Ids(tasksH)
  /\ tasksH' = ToggleCompleted(tasksH, id)
  /\ categories' = CategoryCounts(ToggleCompleted(tasksH, id))
  /\ pending' = Append(pending,
                  SetItem("Home", ToggleCompleted(tasksH, id), "toggle", id))
  /\ twice' = NextPair("Home", id)
  /\ last' = Step("toggle", "Home", "toggle", id, "none", "none", "none")
  /\ UNCHANGED <<view, platform, now, storage, tasksT, focus, modal, prompt, fails,
                 deleted>>

----------------------------------------------------------------------------
(* Delete *)

\* TasksScreen.deleteTask on the web: window.confirm blocks until answered
DeleteTaskWeb(id, confirmed) ==
  /\ platform = "web"
  /\ focus = "Tasks"
  /\ NoDialog
  /\ id \in Ids(tasksT)
  /\ Budget
  /\ IF confirmed
     THEN /\ CanIssue
          /\ events' = events + 1
          /\ pending' = Append(pending,
                          SetItem("Tasks", FilterOut(tasksT, id), "delete", id))
          /\ twice' = NoPair
          /\ last' = Step("confirm", "Tasks", "delete", id, "none", "none",
                          "none")
     ELSE /\ UNCHANGED <<pending, twice, events>>
          /\ last' = Step("cancel", "Tasks", "delete", id, "none", "none",
                          "none")
  /\ UNCHANGED <<view, platform, now, storage, tasksT, tasksH, categories, focus,
                 modal, prompt, fails, deleted>>

\* TasksScreen.deleteTask elsewhere: Alert.alert returns at once, its Delete
\* button keeps the tasks of the render that called deleteTask
DeleteTaskNative(id) ==
  /\ platform = "native"
  /\ focus = "Tasks"
  /\ NoDialog
  /\ id \in Ids(tasksT)
  /\ Budget
  /\ prompt' = [open |-> TRUE, id |-> id, tasks |-> tasksT]
  /\ last' = Step("ask", "Tasks", "delete", id, "none", "none", "none")
  /\ UNCHANGED <<view, platform, now, storage, pending, tasksT, tasksH, categories,
                 focus, modal, fails, events, twice, deleted>>

\* the Cancel button of the alert
AlertCancel ==
  /\ prompt.open
  /\ prompt' = NoPrompt
  /\ last' = Step("cancel", "Tasks", "delete", prompt.id, "none", "none",
                  "none")
  /\ UNCHANGED <<view, platform, now, storage, pending, tasksT, tasksH, categories,
                 focus, modal, fails, events, twice, deleted>>

\* the Delete button of the alert: its onPress
AlertDelete ==
  /\ prompt.open
  /\ CanIssue
  /\ Budget
  /\ events' = events + 1
  /\ pending' = Append(pending,
                  SetItem("Tasks", FilterOut(prompt.tasks, prompt.id),
                          "delete", prompt.id))
  /\ prompt' = NoPrompt
  /\ twice' = NoPair
  /\ last' = Step("confirm", "Tasks", "delete", prompt.id, "none", "none",
                  "none")
  /\ UNCHANGED <<view, platform, now, storage, tasksT, tasksH, categories, focus,
                 modal, fails, deleted>>

----------------------------------------------------------------------------
(* The views *)

\* a chip of the Tasks screen: setSelectedCategory(cat)
SetSelectedCategory(cat) ==
  /\ focus = "Tasks"
  /\ NoDialog
  /\ Budget
  /\ selectedCategory # cat
  /\ events' = events + 1
  /\ selectedCategory' = cat
  /\ last' = Other
  /\ UNCHANGED <<searchQuery, platform, now, storage, pending, tasksT, tasksH,
                 categories, focus, modal, prompt, fails, twice, deleted>>

\* the search field of the Home screen: onChangeText = setSearchQuery
SetSearchQuery(text) ==
  /\ focus = "Home"
  /\ NoDialog
  /\ Budget
  /\ searchQuery # text
  /\ events' = events + 1
  /\ searchQuery' = text
  /\ last' = Other
  /\ UNCHANGED <<selectedCategory, platform, now, storage, pending, tasksT,
                 tasksH, categories, focus, modal, prompt, fails, twice, deleted>>

----------------------------------------------------------------------------

Next ==
  \/ \E s \in Screens : Focus(s)
  \/ \E r \in BOOLEAN : LoadTasksDone(r)
  \/ \E r \in BOOLEAN : LoadDataDone(r)
  \/ \E r \in BOOLEAN : SaveTasksDone(r)
  \/ \E r \in BOOLEAN : SetItemDone(r)
  \/ \E s \in Screens : OpenModal(s)
  \/ \E s \in Screens, t \in TitleInputs : SetNewTaskTitle(s, t)
  \/ \E s \in Screens : HandleClose(s)
  \/ \E s \in Screens, c \in CategoryInputs, t \in now .. (ClockStart + MaxTicks) :
       ModalHandleAddTask(s, c, t)
  \/ \E id \in Ids(tasksT) : TasksToggleTask(id)
  \/ \E id \in Ids(tasksH) : HomeToggleTask(id)
  \/ \E id \in Ids(tasksT), c \in BOOLEAN : DeleteTaskWeb(id, c)
  \/ \E id \in Ids(tasksT) : DeleteTaskNative(id)
  \/ AlertCancel
  \/ AlertDelete
  \/ \E cat \in Range(TasksScreenCATEGORIES) : SetSelectedCategory(cat)
  \/ \E text \in QueryInputs : SetSearchQuery(text)

Spec == Init /\ [][Next]_vars

----------------------------------------------------------------------------
(* A session on a device that holds more tasks than the Home screen lists  *)
(* when nothing is searched for                                            *)

\* the titles of the tasks earlier sessions stored, the latest first
StoredTitles ==
  << <<"a">>, <<"A", "c">>, <<"c", "a">>, <<"A">>, <<"c">>, <<"a", "c">>,
     <<"C", "A">> >>

StoredTasks ==
  [k \in DOMAIN StoredTitles |->
     [id |-> ToString(ClockStart - k), title |-> StoredTitles[k],
      completed |-> (k % 3 = 0),
      category |-> CATEGORY_NAMES[((k - 1) % Len(CATEGORY_NAMES)) + 1],
      date |-> LocaleDateString(ClockStart - k)]]

ViewInit ==
  /\ platform \in Platforms
  /\ now = ClockStart
  /\ storage = Stringify(StoredTasks)
  /\ focus \in Screens
  /\ pending = <<GetItem(focus)>>
  /\ tasksT = <<>>
  /\ tasksH = <<>>
  /\ categories = <<>>
  /\ modal = [s \in Screens |-> Closed]
  /\ prompt = NoPrompt
  /\ fails = 0
  /\ events = 0
  /\ selectedCategory = "All"
  /\ searchQuery = <<>>
  /\ twice = NoPair
  /\ deleted = {}
  /\ last = Other

\* the steps of a session that loads, searches, selects and toggles
ViewNext ==
  \/ \E s \in Screens : Focus(s)
  \/ \E r \in BOOLEAN : LoadTasksDone(r)
  \/ \E r \in BOOLEAN : LoadDataDone(r)
  \/ \E r \in BOOLEAN : SetItemDone(r)
  \/ \E id \in Ids(tasksH) : HomeToggleTask(id)
  \/ \E cat \in Range(TasksScreenCATEGORIES) : SetSelectedCategory(cat)
  \/ \E text \in QueryInputs : SetSearchQuery(text)

ViewSpec == ViewInit /\ [][ViewNext]_vars

----------------------------------------------------------------------------
(* Vocabulary of the properties *)

\* the persisted collection: what a load that succeeds would return
Persisted == IF storage.tag = "json" THEN storage.value ELSE <<>>

Distinct(ts) == \A i, j \in DOMAIN ts : ts[i].id = ts[j].id => i = j

SetsPending == { i \in DOMAIN pending : pending[i].kind = "set" }

----------------------------------------------------------------------------
(* C1 *)

\* C1: every add grows the collection by exactly one record, the new record
\* first and the previous records after it in unchanged order: the Home
\* screen's collection when handleAddTask runs, the Tasks screen's collection
\* and the persisted collection when the add's write completes (storage
\* calls not failing, the stored value readable).
AddGrowsByOne ==
  [][ /\ (last'.op = "submit" /\ last'.origin = "add" /\ last'.screen = "Home")
          => /\ Len(tasksH') = Len(tasksH) + 1
             /\ tasksH'[1].id = last'.id
             /\ Tail(tasksH') = tasksH
      /\ (last'.op = "saved" /\ last'.origin = "add" /\ last'.outcome = "ok"
            /\ fails = 0 /\ storage.tag # "corrupt")
          => /\ Len(storage'.value) = Len(Persisted) + 1
             /\ storage'.value[1].id = last'.id
             /\ Tail(storage'.value) = Persisted
             /\ last'.screen = "Tasks"
                  => /\ Len(tasksT') = Len(tasksT) + 1
                     /\ tasksT'[1].id = last'.id
                     /\ Tail(tasksT') = tasksT
    ]_vars

----------------------------------------------------------------------------
(* C2 *)

\* C2: two toggles of one id on one screen, with no other mutation, no load
\* and no failed write between or after them, leave the completed flag of
\* the records of that id as it was before the first, in the screen's
\* collection and in the persisted one, once both writes have completed.
ToggleTwiceRestores ==
  (twice.stage = 2 /\ SetsPending = {})
    => /\ Len(TasksOf(twice.screen)) = Len(twice.orig)
       /\ \A i \in DOMAIN twice.orig :
            twice.orig[i].id = twice.id
              => TasksOf(twice.screen)[i].completed = twice.orig[i].completed
       /\ \A r \in Range(Persisted) :
            r.id = twice.id
              => \E i \in DOMAIN twice.orig :
                   /\ twice.orig[i].id = r.id
                   /\ twice.orig[i].completed = r.completed

----------------------------------------------------------------------------
(* C3 *)

\* C3: a load that succeeds never returns a record whose id was deleted by a
\* confirmed delete whose write has completed (and was not given to a new
\* task since).
DeletedStaysDeleted ==
  (last.op = "loaded" /\ last.outcome = "ok")
    => Ids(TasksOf(last.screen)) \cap deleted = {}

----------------------------------------------------------------------------
(* C4 *)

\* C4, as stated: after a load that finds the key absent or the stored value
\* unreadable, the screen's collection is empty.
LoadOfNothingEmpties ==
  (last.op = "loaded" /\ last.outcome \in {"absent", "corrupt"})
    => TasksOf(last.screen) = <<>>

\* C4, amended: a load that finds the key absent leaves the screen's
\* collection empty (the Home screen sets it empty; the Tasks screen leaves
\* it as it was, and it was empty); a load that finds the stored value
\* unreadable leaves the screen's collection as it was before the load.
LoadOfNothing ==
  [][ last'.op = "loaded"
        => /\ last'.outcome = "absent"
                => /\ last'.screen = "Home" => tasksH' = <<>>
                   /\ last'.screen = "Tasks"
                        => (tasksT' = tasksT /\ tasksT' = <<>>)
           /\ last'.outcome = "corrupt"
                => /\ tasksT' = tasksT
                   /\ tasksH' = tasksH
    ]_vars

\* an unreadable stored value met by a screen that holds a task
LoadOfCorruptSeen ==
  /\ last.op = "loaded"
  /\ last.outcome = "corrupt"
  /\ TasksOf(last.screen) # <<>>

----------------------------------------------------------------------------
(* C5 *)

----------------------------------------------------------------------------
(* C6 *)

\* C6: the records of each collection, in memory and persisted, have
\* pairwise distinct ids.
UniqueIds ==
  /\ Distinct(tasksT)
  /\ Distinct(tasksH)
  /\ Distinct(Persisted)

----------------------------------------------------------------------------
(* C7 *)

NoEmptyTitle(ts) == \A i \in DOMAIN ts : ts[i].title # <<>>

\* C7: Create Task pressed on a title that is empty once trimmed raises the
\* alert, calls no onAddTask, changes no collection in memory or persisted,
\* issues no write and leaves the form open with the title as typed; and no
\* collection, in memory, persisted or on its way to storage, ever holds a
\* task with an empty title.
BlankTitleRejected ==
  /\ [](/\ NoEmptyTitle(tasksT)
        /\ NoEmptyTitle(tasksH)
        /\ NoEmptyTitle(Persisted)
        /\ \A i \in DOMAIN pending : NoEmptyTitle(pending[i].value))
  /\ [][ (last'.op = "submit" /\ Trim(modal[last'.screen].newTaskTitle) = <<>>)
           => /\ last'.alert = "Please enter a task title"
              /\ last'.origin = "none"
              /\ tasksT' = tasksT
              /\ tasksH' = tasksH
              /\ categories' = categories
              /\ storage' = storage
              /\ pending' = pending
              /\ modal' = modal
              /\ modal'[last'.screen].visible
       ]_vars

\* a title of one space has been submitted and refused
BlankTitleSeen ==
  /\ last.op = "submit"
  /\ last.alert = "Please enter a task title"
  /\ modal[last.screen].visible
  /\ modal[last.screen].newTaskTitle = <<" ">>

----------------------------------------------------------------------------
(* C8 *)

\* C8: a load whose getItem or parse throws leaves both screens' collections
\* and the category counts as they were; a write whose setItem throws leaves
\* the stored value as it was; either failure is logged and the request is
\* dropped, no other being issued.
StorageFailureLeavesState ==
  [][ /\ (last'.op = "loaded" /\ last'.outcome \in {"rejected", "corrupt"})
          => /\ tasksT' = tasksT
             /\ tasksH' = tasksH
             /\ categories' = categories
             /\ storage' = storage
             /\ last'.logged = "Failed to load tasks"
             /\ pending' = Tail(pending)
      /\ (last'.op = "saved" /\ last'.outcome = "rejected")
          => /\ storage' = storage
             /\ last'.logged \in {"Failed to save tasks", "Failed to save task"}
             /\ pending' = Tail(pending)
    ]_vars

\* a getItem has thrown for a screen that holds a task
ReadFailureSeen ==
  /\ last.op = "loaded"
  /\ last.outcome = "rejected"
  /\ TasksOf(last.screen) # <<>>

----------------------------------------------------------------------------
(* C9 *)

\* C9: at most one write is in flight, and when an add, a toggle or a
\* confirmed delete has run, its write is the only request in flight: no
\* load or save issued earlier was still unresolved when it ran.
SingleInFlight ==
  /\ Cardinality(SetsPending) <= 1
  /\ (last.origin \in {"add", "toggle", "delete"}
        /\ last.op \in {"submit", "toggle", "confirm"})
       => Len(pending) = 1

----------------------------------------------------------------------------
(* C10 *)

SameButCompleted(r, q) ==
  /\ r.id = q.id
  /\ r.title = q.title
  /\ r.category = q.category
  /\ r.date = q.date

----------------------------------------------------------------------------
(* C11 *)

\* the clock reading a record was created at: the one its id is the text of
CreatedAt(r) == CHOOSE t \in 0 .. (ClockStart + MaxTicks) : ToString(t) = r.id

\* C11: the persisted collection is ordered most-recent-first: of any two
\* of its records, the one nearer the front was created no earlier than the
\* one behind it.
MostRecentFirst ==
  \A i, j \in DOMAIN Persisted :
    i < j => CreatedAt(Persisted[i]) >= CreatedAt(Persisted[j])

\* a write has stored a task created in this session in front of an older one
MostRecentFirstSeen ==
  /\ last.op = "saved"
  /\ last.outcome = "ok"
  /\ Len(Persisted) >= 2
  /\ CreatedAt(Persisted[1]) > CreatedAt(Persisted[Len(Persisted)])

----------------------------------------------------------------------------
(* C12 *)

\* the count the Home screen holds for a category; a category it holds no
\* entry for shows no task, which is read as a count of zero
HeldCount(name) ==
  IF \E i \in DOMAIN categories : categories[i].name = name
  THEN categories[CHOOSE i \in DOMAIN categories : categories[i].name = name].count
  ELSE 0

\* C12: on the Home screen the count held for each category equals the
\* number of records of the screen's collection that have that category and
\* are not completed.
CategoryCountsMatch ==
  \A i \in DOMAIN CATEGORY_NAMES :
    HeldCount(CATEGORY_NAMES[i]) = CountActive(tasksH, CATEGORY_NAMES[i])

----------------------------------------------------------------------------
(* C13 *)

\* the records of ts that satisfy P, each once, in the order they have in ts
Picked(ts, P(_)) ==
  LET idx == { i \in DOMAIN ts : P(ts[i]) }
      Nth(k) == CHOOSE i \in idx : Cardinality({ j \in idx : j < i }) = k - 1
  IN [k \in 1 .. Cardinality(idx) |-> ts[Nth(k)]]

\* C13: on the Tasks screen the filtered view is the whole in-memory
\* collection when the selected category is "All", and otherwise exactly the
\* records whose category is the selected one, in their original order
\* (for the chip selected and for every chip that could be); and selecting
\* a category changes no collection, in memory, persisted or on its way to
\* storage.
FilteredViewRight ==
  /\ [](/\ selectedCategory \in Range(TasksScreenCATEGORIES)
        /\ \A selected \in Range(TasksScreenCATEGORIES) \cup {selectedCategory} :
             LET OfSelected(r) == r.category = selected
             IN FilteredTasks(tasksT, selected) =
                  IF selected = "All" THEN tasksT ELSE Picked(tasksT, OfSelected))
  /\ [][ selectedCategory' # selectedCategory
           => /\ tasksT' = tasksT
              /\ tasksH' = tasksH
              /\ categories' = categories
              /\ storage' = storage
              /\ pending' = pending
       ]_vars

\* a category is selected that some records of the collection have and
\* others have not
FilteredViewSeen ==
  /\ selectedCategory # "All"
  /\ FilteredTasks(tasksT, selectedCategory) # <<>>
  /\ Len(FilteredTasks(tasksT, selectedCategory)) < Len(tasksT)

----------------------------------------------------------------------------
(* C14 *)

\* two characters that are one letter, in the same or in the other case
SameLetter(c, d) == c = d \/ {c, d} \in { {"a", "A"}, {"b", "B"}, {"c", "C"} }

\* q is met, letter by letter, somewhere in title
ContainsIgnoringCase(title, q) ==
  \E k \in 0 .. (Len(title) - Len(q)) :
    \A i \in 1 .. Len(q) : SameLetter(title[k + i], q[i])

\* C14: on the Home screen, for every search query that is not empty (the
\* one typed and every one that could be), the displayed list is exactly the
\* in-memory records whose title contains the query ignoring case, in their
\* original order, however many they are; it is empty when no title
\* contains the query.
SearchViewRight ==
  \A query \in (QueryInputs \cup {searchQuery}) \ {<<>>} :
    LET Found(r) == ContainsIgnoringCase(r.title, query)
    IN /\ DisplayedTasks(tasksH, query) = Picked(tasksH, Found)
       /\ (\A r \in Range(tasksH) : ~Found(r))
            => DisplayedTasks(tasksH, query) = <<>>

\* a query is typed that more than five records match and another does not
SearchOverCapSeen ==
  /\ searchQuery # <<>>
  /\ Len(DisplayedTasks(tasksH, searchQuery)) > 5
  /\ Len(DisplayedTasks(tasksH, searchQuery)) < Len(tasksH)

----------------------------------------------------------------------------
(* C15 *)

\* C15: with no storage call failing, a record of the persisted collection
\* is in every later persisted collection unless a confirmed delete of its
\* id has been written: no step removes from storage a record of any other
\* id.
NoTaskLost ==
  [][ fails' = 0
        => \A r \in Range(Persisted) :
             \/ r.id \in Ids(IF storage'.tag = "json" THEN storage'.value ELSE <<>>)
             \/ r.id \in deleted'
    ]_vars

====
